---- MODULE Spec2Model ----
(***************************************************************************)
(* Model of meme_keywords.py: the static extraction of add_meme(...)       *)
(* metadata from each module's __init__.py (extract_meme_info), the        *)
(* preview lookup (find_first_image_path), the markdown table              *)
(* (generate_markdown_table) and the driver (main).                        *)
(*                                                                         *)
(* A Python str is a sequence of atoms.  An atom is a non-empty fragment   *)
(* of text; a line break is always the atom "\n" on its own, so a str is   *)
(* empty exactly when its sequence is empty and holds a line break exactly *)
(* when it holds the atom "\n".  File names are sequences of one-character *)
(* atoms.  The non-ASCII literals of the source are written in ASCII.      *)
(***************************************************************************)
EXTENDS Integers, Sequences, FiniteSets, TLC

----------------------------------------------------------------------------
(* Bounds of the explored inputs. *)

\* longest directory listing of ./memes explored by Spec
MaxModules == 3
\* longest list literal explored for keywords= / default_texts=
MaxElts == 2
\* most positional arguments explored for a datetime(...) call
MaxArgs == 4

----------------------------------------------------------------------------
(* Generic helpers on sequences. *)

Range(s) == {s[i] : i \in DOMAIN s}

\* all sequences over S of length at most n
SeqsUpTo(S, n) == UNION {[1..k -> S] : k \in 0..n}

\* all sequences without repetition over S of length at most n
ArrangementsUpTo(S, n) ==
    {s \in SeqsUpTo(S, n) : \A i, j \in DOMAIN s : i # j => s[i] # s[j]}

RECURSIVE Concat(_)
\* the concatenation of a sequence of sequences
Concat(ss) == IF ss = <<>> THEN <<>> ELSE Head(ss) \o Concat(Tail(ss))

----------------------------------------------------------------------------
(* The syntax tree handed to extract_meme_info, as ast.parse and ast.walk  *)
(* present it.  An expression node (a keyword's value, a list element, a   *)
(* positional argument) is a record                                        *)
(*   [type, val, id, elts, args]                                           *)
(* type: the ast class; val: a Constant's value (an int, a str or None);   *)
(* id: the name a Call invokes ("" when func is not a Name);               *)
(* elts: a List's elements; args: a Call's positional arguments.           *)

\* a Python constant value
PyInt(n) == [kind |-> "int", n |-> n, s |-> <<>>]
PyStr(s) == [kind |-> "str", n |-> 0, s |-> s]
PyNone == [kind |-> "none", n |-> 0, s |-> <<>>]

Leaf(type, v) ==
    [type |-> type, val |-> v, id |-> "", elts |-> <<>>, args |-> <<>>]
ConstantNode(v) == Leaf("Constant", v)
NameNode == Leaf("Name", PyNone)
ListNode(elts) ==
    [type |-> "List", val |-> PyNone, id |-> "", elts |-> elts, args |-> <<>>]
TupleNode(elts) ==
    [type |-> "Tuple", val |-> PyNone, id |-> "", elts |-> elts, args |-> <<>>]
CallNode(id, args) ==
    [type |-> "Call", val |-> PyNone, id |-> id, elts |-> <<>>, args |-> args]

\* keyword(arg=value)
Keyword(arg, value) == [arg |-> arg, value |-> value]

\* a node as ast.walk yields it: its class, the id of its func (for a Call
\* whose func is a Name) or its own id (for a Name), and its keywords
WalkNode(type, id, keywords) ==
    [type |-> type, id |-> id, keywords |-> keywords]

\* the content of an __init__.py: whether ast.parse accepts it (any
\* exception it raises is caught the same way), and the nodes of its tree in
\* ast.walk order.  A file that cannot be read or decoded is not modelled.
SyntaxErrorSource == [parses |-> FALSE, walk |-> <<>>]
ParsedSource(walk) == [parses |-> TRUE, walk |-> walk]

----------------------------------------------------------------------------
(* The datetime constructor, as the standard library implements it. *)

NoneDate == <<>>

\* datetime.min
DatetimeMin == <<1, 1, 1, 0, 0, 0, 0>>

IsLeap(y) == (y % 4 = 0) /\ ((y % 100 # 0) \/ (y % 400 = 0))

DaysInMonth(y, m) ==
    IF m = 2 THEN (IF IsLeap(y) THEN 29 ELSE 28)
    ELSE IF m \in {4, 6, 9, 11} THEN 30 ELSE 31

\* the seven numeric fields, missing ones at their default 0
DatetimeFields(vals) ==
    [i \in 1..7 |-> IF i <= Len(vals) THEN vals[i].n ELSE 0]

DatetimeInRange(f) ==
    /\ f[1] >= 1 /\ f[1] <= 9999
    /\ f[2] >= 1 /\ f[2] <= 12
    /\ f[3] >= 1 /\ f[3] <= DaysInMonth(f[1], f[2])
    /\ f[4] >= 0 /\ f[4] <= 23
    /\ f[5] >= 0 /\ f[5] <= 59
    /\ f[6] >= 0 /\ f[6] <= 59
    /\ f[7] >= 0 /\ f[7] <= 999999

\* the datetime built from the constant values vals (three or more):
\* TypeError for more than 8 arguments, a non-integer field or a tzinfo that is not None,
\* ValueError for a field out of range, otherwise the datetime.
DatetimeNew(vals) ==
    IF \/ Len(vals) > 8
       \/ \E i \in DOMAIN vals : i <= 7 /\ vals[i].kind # "int"
       \/ Len(vals) = 8 /\ vals[8].kind # "none"
    THEN [raised |-> TRUE, value |-> NoneDate]
    ELSE IF ~DatetimeInRange(DatetimeFields(vals))
    THEN [raised |-> TRUE, value |-> NoneDate]
    ELSE [raised |-> FALSE, value |-> DatetimeFields(vals)]

RECURSIVE TupleLess(_, _)
\* a < b for two datetimes (field by field, most significant first)
TupleLess(a, b) ==
    IF a = <<>> \/ b = <<>> THEN FALSE
    ELSE IF Head(a) # Head(b) THEN Head(a) < Head(b)
    ELSE TupleLess(Tail(a), Tail(b))

----------------------------------------------------------------------------
(* extract_meme_info *)

\* StrElts with the test isinstance(elt, ast.Constant): every constant kept
StrEltsAnyConstant(elts) ==
    LET cs == SelectSeq(elts, LAMBDA e : e.type = "Constant")
    IN [i \in DOMAIN cs |-> cs[i].val.s]

\* [elt.s for elt in elts if isinstance(elt, ast.Str)]
StrElts(elts) ==
    LET strs == SelectSeq(elts, LAMBDA e :
                    e.type = "Constant" /\ e.val.kind = "str")
    IN [i \in DOMAIN strs |-> strs[i].val.s]

\* [a.n for a in args if isinstance(a, ast.Constant)]
ConstantArgs(args) ==
    LET cs == SelectSeq(args, LAMBDA a : a.type = "Constant")
    IN [i \in DOMAIN cs |-> cs[i].val]

DefaultInfo ==
    [keywords |-> <<>>, min_images |-> PyNone, min_texts |-> PyNone,
     default_texts |-> <<>>, date_created |-> NoneDate]

\* one pass of the loop over node.keywords: the info after keyword kw, or
\* the exception the datetime constructor raises
ApplyKeyword(info, kw) ==
    IF kw.arg = "keywords" /\ kw.value.type = "List"
    THEN [raised |-> FALSE,
          info |-> [info EXCEPT !.keywords = StrElts(kw.value.elts)]]
    ELSE IF kw.arg = "min_images" /\ kw.value.type = "Constant"
    THEN [raised |-> FALSE,
          info |-> [info EXCEPT !.min_images = kw.value.val]]
    ELSE IF kw.arg = "min_texts" /\ kw.value.type = "Constant"
    THEN [raised |-> FALSE,
          info |-> [info EXCEPT !.min_texts = kw.value.val]]
    ELSE IF kw.arg = "default_texts" /\ kw.value.type = "List"
    THEN [raised |-> FALSE,
          info |-> [info EXCEPT !.default_texts = StrElts(kw.value.elts)]]
    ELSE IF /\ kw.arg = "date_created" /\ kw.value.type = "Call"
            /\ kw.value.id = "datetime"
    THEN LET args == ConstantArgs(kw.value.args)
         IN IF Len(args) >= 3
            THEN LET d == DatetimeNew(args)
                 IN IF d.raised
                    THEN [raised |-> TRUE, info |-> info]
                    ELSE [raised |-> FALSE,
                          info |-> [info EXCEPT !.date_created = d.value]]
            ELSE [raised |-> FALSE, info |-> info]
    ELSE [raised |-> FALSE, info |-> info]

RECURSIVE ApplyKeywords(_, _)
\* for kw in node.keywords: ...
ApplyKeywords(info, kws) ==
    IF kws = <<>> THEN [raised |-> FALSE, info |-> info]
    ELSE LET r == ApplyKeyword(info, Head(kws))
         IN IF r.raised THEN r ELSE ApplyKeywords(r.info, Tail(kws))

\* isinstance(node, ast.Call) and getattr(node.func, 'id', '') == 'add_meme'
IsAddMemeCall(node) == node.type = "Call" /\ node.id = "add_meme"

\* ExtractMemeInfo without the try/except around ast.parse
ExtractMemeInfoNoCatch(source) ==
    IF ~source.parses
    THEN [status |-> "raise", diag |-> FALSE, info |-> DefaultInfo]
    ELSE LET hits == SelectSeq(source.walk, IsAddMemeCall)
         IN IF hits = <<>>
            THEN [status |-> "none", diag |-> FALSE, info |-> DefaultInfo]
            ELSE LET r == ApplyKeywords(DefaultInfo, hits[1].keywords)
                 IN IF r.raised
                    THEN [status |-> "raise", diag |-> FALSE,
                          info |-> DefaultInfo]
                    ELSE [status |-> "ok", diag |-> FALSE, info |-> r.info]

\* extract_meme_info(file_path) on a file holding `source`.
\* status "none": returned None (diag: the diagnostic was printed);
\* "raise": an exception left the function; "ok": returned info.
ExtractMemeInfo(source) ==
    IF ~source.parses
    THEN [status |-> "none", diag |-> TRUE, info |-> DefaultInfo]
    ELSE LET hits == SelectSeq(source.walk, IsAddMemeCall)
         IN IF hits = <<>>
            THEN [status |-> "none", diag |-> FALSE, info |-> DefaultInfo]
            ELSE LET r == ApplyKeywords(DefaultInfo, hits[1].keywords)
                 IN IF r.raised
                    THEN [status |-> "raise", diag |-> FALSE,
                          info |-> DefaultInfo]
                    ELSE [status |-> "ok", diag |-> FALSE, info |-> r.info]

----------------------------------------------------------------------------
(* str operations *)

RECURSIVE Join(_, _)
\* sep.join(strs): sep and the elements of strs are strs
Join(sep, strs) ==
    IF strs = <<>> THEN <<>>
    ELSE IF Len(strs) = 1 THEN strs[1]
    ELSE strs[1] \o sep \o Join(sep, Tail(strs))

\* s.replace(old, new) for a one-atom old
Replace(s, old, new) ==
    Concat([i \in DOMAIN s |-> IF s[i] = old THEN new ELSE <<s[i]>>])

RECURSIVE LStrip(_, _)
\* s.lstrip(chars): leading characters of the set chars removed
LStrip(s, chars) ==
    IF s # <<>> /\ Head(s) \in chars THEN LStrip(Tail(s), chars) ELSE s

\* s.endswith(suffix)
EndsWith(s, suffix) ==
    /\ Len(suffix) <= Len(s)
    /\ SubSeq(s, Len(s) - Len(suffix) + 1, Len(s)) = suffix

\* the characters of the explored file names, in code point order
CodeOrder ==
    <<".", "A", "G", "N", "P", "a", "b", "c", "e", "g", "i", "j",
      "n", "o", "p", "t", "w", "x">>

Ord(c) == CHOOSE i \in DOMAIN CodeOrder : CodeOrder[i] = c

LowerChar(c) ==
    CASE c = "A" -> "a" [] c = "G" -> "g" [] c = "N" -> "n"
      [] c = "P" -> "p" [] OTHER -> c

\* s.lower()
Lower(s) == [i \in DOMAIN s |-> LowerChar(s[i])]

RECURSIVE StrLess(_, _)
\* a < b for two strs: code point order, a proper prefix first
StrLess(a, b) ==
    IF b = <<>> THEN FALSE
    ELSE IF a = <<>> THEN TRUE
    ELSE IF Head(a) # Head(b) THEN Ord(Head(a)) < Ord(Head(b))
    ELSE StrLess(Tail(a), Tail(b))

RECURSIVE SortedNames(_)
\* sorted(names) for a set of distinct strs
SortedNames(names) ==
    IF names = {} THEN <<>>
    ELSE LET m == CHOOSE x \in names : \A y \in names \ {x} : StrLess(x, y)
         IN <<m>> \o SortedNames(names \ {m})

\* str(v) for a constant value that is not None
StrOf(v) == IF v.kind = "int" THEN <<ToString(v.n)>> ELSE v.s

----------------------------------------------------------------------------
(* find_first_image_path *)

MEMES_DIR == <<".", "/", "memes">>
GITHUB_REPO == "jinjiao007/meme-generator-jj"

\* os.path.join(a, b)
PathJoin(a, b) == a \o <<"/">> \o b

\* (".png", ".jpg", ".jpeg", ".gif", ".webp")
ImageExtensions ==
    { <<".", "p", "n", "g">>, <<".", "j", "p", "g">>,
      <<".", "j", "p", "e", "g">>, <<".", "g", "i", "f">>,
      <<".", "w", "e", "b", "p">> }

\* IsImageName without .lower()
IsImageNameCaseSensitive(file) ==
    \E ext \in ImageExtensions : EndsWith(file, ext)

\* file.lower().endswith((".png", ".jpg", ".jpeg", ".gif", ".webp"))
IsImageName(file) == \E ext \in ImageExtensions : EndsWith(Lower(file), ext)

\* the result None
NonePath == [none |-> TRUE, s |-> <<>>]

\* find_first_image_path(subdir), images being what subdir/images is:
\* [isdir, entries], entries the set of names os.listdir returns
FindFirstImagePath(subdir, images) ==
    LET images_dir == PathJoin(subdir, <<"images">>)
        files == SortedNames(images.entries)
        hits == SelectSeq(files, IsImageName)
    IN IF ~images.isdir THEN NonePath
       ELSE IF hits = <<>> THEN NonePath
       ELSE [none |-> FALSE,
             s |-> Replace(PathJoin(images_dir, hits[1]), "\\", <<"/">>)]

----------------------------------------------------------------------------
(* generate_markdown_table *)

Nbsp == <<"&nbsp;">>
Br == <<"</br>">>

TableHeader == <<"| # | preview | keywords | images | texts | default | module | date |">>
TableSeparator == <<"|:--:|:----:|:------:|:------:|:------:|:------:|:----------:|:------:|">>

Pad2(n) == IF n < 10 THEN <<"0", ToString(n)>> ELSE <<ToString(n)>>

\* d.strftime("%Y-%m-%d"); the C library does not pad %Y
Strftime(d) == <<ToString(d[1]), "-">> \o Pad2(d[2]) \o <<"-">> \o Pad2(d[3])

\* a dict as a function: key in d, d[key]
HasKey(d, key) == key \in DOMAIN d

\* the line appended for the idx-th pair x = (module, info)
TableRow(idx, x, previews) ==
    LET module == x[1]
        info == x[2]
        kw_str == IF info.keywords # <<>>
                  THEN Join(Br, info.keywords) ELSE Nbsp
        module_link == <<"[", module, "](https://github.com/", GITHUB_REPO,
                         "/tree/master/memes/", module, ")">>
        date_str == IF info.date_created # NoneDate
                    THEN Strftime(info.date_created) ELSE Nbsp
        image_count == IF info.min_images.kind # "none"
                       THEN StrOf(info.min_images) ELSE Nbsp
        text_count == IF info.min_texts.kind # "none"
                      THEN StrOf(info.min_texts) ELSE Nbsp
        default_texts ==
            IF info.default_texts # <<>>
            THEN Join(Br, [i \in DOMAIN info.default_texts |->
                             Replace(info.default_texts[i], "\n", Br)])
            ELSE Nbsp
        preview == IF HasKey(previews, module)
                   THEN <<"<div style=\"text-align:center\"><img src=\"">>
                        \o previews[module]
                        \o <<"\" height=\"50\" width=\"50\" style=\"object-fit:cover;\"></div>">>
                   ELSE Nbsp
    IN <<"| ", ToString(idx), " | ">> \o preview \o <<" | ">> \o kw_str
       \o <<" | ">> \o image_count \o <<" | ">> \o text_count \o <<" | ">>
       \o default_texts \o <<" | ">> \o module_link \o <<" | ">> \o date_str
       \o <<" |">>

\* the list `lines`: header, separator, one line per pair, numbered from 1
TableLines(modules, previews) ==
    <<TableHeader, TableSeparator>>
    \o [i \in DOMAIN modules |-> TableRow(i, modules[i], previews)]

\* generate_markdown_table(modules_info, previews_by_module)
GenerateMarkdownTable(modules, previews) ==
    Join(<<"\n">>, TableLines(modules, previews))

----------------------------------------------------------------------------
(* Inputs: sources, images directories, the ./memes tree. *)

IntNode(n) == ConstantNode(PyInt(n))
StrNode(s) == ConstantNode(PyStr(s))

\* the Call node of add_meme(<keywords>) as ast.walk yields it
AddMeme(keywords) == WalkNode("Call", "add_meme", keywords)

\* nodes that are not a registration: the bare name add_meme, a call of
\* another function, a call through an attribute (x.add_meme(...))
OtherNodes ==
    << WalkNode("Name", "add_meme", <<>>),
       WalkNode("Call", "register",
                <<Keyword("keywords", ListNode(<<StrNode(<<"zz">>)>>))>>),
       WalkNode("Call", "",
                <<Keyword("keywords", ListNode(<<StrNode(<<"zz">>)>>))>>) >>

\* a second registration, later in the walk
LaterAddMeme ==
    AddMeme(<< Keyword("keywords", ListNode(<<StrNode(<<"later">>)>>)),
               Keyword("min_images", IntNode(9)) >>)

DatetimeCall(y, m, d) == CallNode("datetime", <<IntNode(y), IntNode(m), IntNode(d)>>)

\* positional arguments explored for datetime(...)
ArgValues ==
    {IntNode(1), IntNode(2024), StrNode(<<"x">>), NameNode}

DateCalls == {CallNode("datetime", a) : a \in SeqsUpTo(ArgValues, MaxArgs)}

\* elements explored for a list literal
EltValues ==
    {StrNode(<<"a">>), StrNode(<<>>), StrNode(<<"\n">>), IntNode(1), NameNode}

Lists == {ListNode(e) : e \in SeqsUpTo(EltValues, MaxElts)}

\* one value of every shape, tried under every keyword name
BasicValues ==
    { IntNode(0), IntNode(3), StrNode(<<>>), StrNode(<<"a">>),
      ConstantNode(PyNone), NameNode,
      ListNode(<<StrNode(<<"a">>)>>), TupleNode(<<StrNode(<<"a">>)>>),
      DatetimeCall(2024, 1, 1),
      CallNode("date", <<IntNode(2024), IntNode(1), IntNode(1)>>),
      CallNode("", <<IntNode(2024), IntNode(1), IntNode(1)>>) }

KwNames ==
    {"keywords", "min_images", "min_texts", "default_texts", "date_created",
     "tags"}

FocusKeywords ==
    {Keyword(n, v) : n \in KwNames, v \in BasicValues}
    \cup {Keyword("date_created", v) : v \in DateCalls}
    \cup {Keyword(n, v) : n \in {"keywords", "default_texts"}, v \in Lists}

CompanionKeywords ==
    { Keyword("keywords", ListNode(<<StrNode(<<"k">>)>>)),
      Keyword("min_texts", IntNode(3)),
      Keyword("date_created", DatetimeCall(2023, 6, 15)) }

KeywordSeqs ==
    {<<>>} \cup {<<k>> : k \in FocusKeywords}
    \cup {<<c, k>> : c \in CompanionKeywords, k \in FocusKeywords}
    \cup {<<k, c>> : c \in CompanionKeywords, k \in FocusKeywords}

\* the sources explored by SpecSource
Sources ==
    {SyntaxErrorSource, ParsedSource(<<>>), ParsedSource(OtherNodes)}
    \cup {ParsedSource(<<AddMeme(kws)>>) : kws \in KeywordSeqs}
    \cup {ParsedSource(OtherNodes \o <<AddMeme(<<k>>), LaterAddMeme>>) :
            k \in FocusKeywords}

\* file names explored in an images directory
FileNames ==
    { <<"b", ".", "p", "n", "g">>, <<"a", ".", "j", "p", "g">>,
      <<"n", "o", "t", "e", ".", "t", "x", "t">>,
      <<"A", ".", "P", "N", "G">>, <<"p", "n", "g">>,
      <<"c", ".", "w", "e", "b", "p", ".", "t", "x", "t">> }

NoImagesDir == [isdir |-> FALSE, entries |-> {}]
ImagesDir(entries) == [isdir |-> TRUE, entries |-> entries]

\* the images directories explored by SpecImages
ImageDirs == {NoImagesDir} \cup {ImagesDir(e) : e \in SUBSET FileNames}

\* an entry of ./memes: os.path.isdir(subdir), os.path.isfile(init_file),
\* the content of __init__.py, and subdir/images
Entry(isdir, has_init, source, images) ==
    [isdir |-> isdir, has_init |-> has_init, source |-> source,
     images |-> images]

ModuleDir(source, images) == Entry(TRUE, TRUE, source, images)

\* the ./memes tree explored by Spec
Repo ==
    [ broken |-> ModuleDir(SyntaxErrorSource,
                   ImagesDir({<<"a", ".", "j", "p", "g">>})),
      helper |-> ModuleDir(ParsedSource(OtherNodes),
                   ImagesDir({<<"b", ".", "p", "n", "g">>})),
      plain |-> ModuleDir(ParsedSource(<<AddMeme(<<>>)>>), NoImagesDir),
      newer |-> ModuleDir(ParsedSource(<<AddMeme(
                   << Keyword("keywords",
                        ListNode(<<StrNode(<<"a">>), StrNode(<<"b">>)>>)),
                      Keyword("min_images", IntNode(1)),
                      Keyword("date_created", DatetimeCall(2024, 1, 1)) >>)>>),
                   ImagesDir({<<"b", ".", "p", "n", "g">>,
                              <<"a", ".", "j", "p", "g">>,
                              <<"n", "o", "t", "e", ".", "t", "x", "t">>})),
      same |-> ModuleDir(ParsedSource(<<AddMeme(
                   << Keyword("date_created", DatetimeCall(2024, 1, 1)),
                      Keyword("min_texts", IntNode(2)) >>)>>),
                   ImagesDir({<<"A", ".", "P", "N", "G">>})),
      older |-> ModuleDir(ParsedSource(<<AddMeme(
                   << Keyword("default_texts",
                        ListNode(<<StrNode(<<"a", "\n", "b">>)>>)),
                      Keyword("date_created", DatetimeCall(2023, 6, 15)) >>)>>),
                   ImagesDir({<<"n", "o", "t", "e", ".", "t", "x", "t">>})),
      first |-> ModuleDir(ParsedSource(<<AddMeme(
                   << Keyword("date_created", DatetimeCall(1, 1, 1)) >>)>>),
                   ImagesDir({})),
      nodate |-> ModuleDir(ParsedSource(<<AddMeme(
                   << Keyword("keywords", ListNode(<<StrNode(<<"c">>)>>)),
                      Keyword("min_images", IntNode(0)) >>)>>),
                   ImagesDir({<<"A", ".", "P", "N", "G">>,
                              <<"a", ".", "j", "p", "g">>})),
      invalid |-> ModuleDir(ParsedSource(<<AddMeme(
                   << Keyword("date_created", DatetimeCall(2024, 13, 1)) >>)>>),
                   ImagesDir({<<"b", ".", "p", "n", "g">>})),
      readme |-> Entry(FALSE, FALSE, SyntaxErrorSource, NoImagesDir),
      assets |-> Entry(TRUE, FALSE, SyntaxErrorSource,
                   ImagesDir({<<"b", ".", "p", "n", "g">>})) ]

----------------------------------------------------------------------------
(* main *)

VARIABLES
    fs,                 \* the ./memes tree: entry name -> Entry
    listing,            \* os.listdir(MEMES_DIR), in the order it returns
    pc,                 \* "loop", "done", or "raised" (an exception left main)
    idx,                \* position of the for loop in listing
    modules_info,       \* list of (folder, info)
    previews_by_module, \* dict folder -> raw link
    stdout,             \* the lines printed
    output_file         \* the text written to OUTPUT_FILE ("" before)

vars == <<fs, listing, pc, idx, modules_info, previews_by_module, stdout,
          output_file>>

EmptyDict == [k \in {} |-> <<>>]

\* d[key] = value
DictSet(d, key, value) ==
    [k \in DOMAIN d \cup {key} |-> IF k = key THEN value ELSE d[k]]

\* InfoTruthy testing the keywords instead of the dict
InfoTruthyKeywords(r) == r.status = "ok" /\ r.info.keywords # <<>>

\* `if info:` -- None is false, a dict is true when it has a key
InfoTruthy(r) == r.status = "ok" /\ DOMAIN r.info # {}

\* `if image_path:` -- None and "" are false
PathTruthy(p) == ~p.none /\ p.s # <<>>

\* f"https://raw.githubusercontent.com/{GITHUB_REPO}/master/{clean_path}"
RawLink(image_path) ==
    <<"https://raw.githubusercontent.com/", GITHUB_REPO, "/master/">>
    \o LStrip(image_path, {".", "/"})

\* x[1]["date_created"] or datetime.min
SortKey(x) ==
    IF x[2].date_created # NoneDate THEN x[2].date_created ELSE DatetimeMin

RECURSIVE InsertAscending(_, _)
\* InsertDescending without reverse=True
InsertAscending(sorted, x) ==
    IF sorted = <<>> THEN <<x>>
    ELSE IF TupleLess(SortKey(x), SortKey(Head(sorted)))
    THEN <<x>> \o sorted
    ELSE <<Head(sorted)>> \o InsertAscending(Tail(sorted), x)

RECURSIVE InsertDescending(_, _)
\* x placed after every element whose key is not smaller than its own
InsertDescending(sorted, x) ==
    IF sorted = <<>> THEN <<x>>
    ELSE IF TupleLess(SortKey(Head(sorted)), SortKey(x))
    THEN <<x>> \o sorted
    ELSE <<Head(sorted)>> \o InsertDescending(Tail(sorted), x)

\* SortModules without the sort
SortModulesUnsorted(modules) == modules

RECURSIVE SortModules(_)
\* modules.sort(key=..., reverse=True): descending by key, equal keys in
\* their original order
SortModules(modules) ==
    IF modules = <<>> THEN <<>>
    ELSE InsertDescending(SortModules(SubSeq(modules, 1, Len(modules) - 1)),
                          modules[Len(modules)])

\* header = f"# Meme Keywords\n\n**total: {meme_count}**\n"
Header(meme_count) ==
    <<"# Meme Keywords", "\n", "\n", "**total: ", ToString(meme_count),
      "**", "\n">>

CssStyle == <<"\n", "<style>", "\n", "</style>", "\n">>

\* markdown = header + "\n" + css_style + "\n\n" + markdown_table
Markdown(modules, previews) ==
    Header(Len(modules)) \o <<"\n">> \o CssStyle \o <<"\n", "\n">>
    \o GenerateMarkdownTable(modules, previews)

ParseFailedLine(folder) ==
    <<"parse failed ">> \o PathJoin(PathJoin(MEMES_DIR, <<folder>>),
                                    <<"__init__.py">>)
    \o <<": ", "SyntaxError">>

DoneLine == <<"done: ", ".", "/", "docs", "/", "meme_keywords.md">>

\* the state main keeps across the loop
MainState(p, m, pv, out) ==
    [pc |-> p, modules_info |-> m, previews_by_module |-> pv, stdout |-> out]

\* the body of `for folder in os.listdir(MEMES_DIR)` for one folder,
\* started in state st: the state after it (pc "raised" when an exception
\* leaves extract_meme_info)
BodyResult(entry, folder, st) ==
    LET subdir == PathJoin(MEMES_DIR, <<folder>>)
        r == ExtractMemeInfo(entry.source)
        image_path == FindFirstImagePath(subdir, entry.images)
    IN IF ~(entry.isdir /\ entry.has_init) THEN st
       ELSE IF r.status = "raise" THEN [st EXCEPT !.pc = "raised"]
       ELSE MainState(
              st.pc,
              IF InfoTruthy(r)
              THEN Append(st.modules_info, <<folder, r.info>>)
              ELSE st.modules_info,
              IF InfoTruthy(r) /\ PathTruthy(image_path)
              THEN DictSet(st.previews_by_module, folder,
                           RawLink(image_path.s))
              ELSE st.previews_by_module,
              IF r.diag THEN Append(st.stdout, ParseFailedLine(folder))
              ELSE st.stdout)

\* one pass of the for loop
LoopBody ==
    /\ pc = "loop"
    /\ idx <= Len(listing)
    /\ LET st == BodyResult(fs[listing[idx]], listing[idx],
                   MainState(pc, modules_info, previews_by_module, stdout))
       IN /\ pc' = st.pc
          /\ idx' = IF st.pc = "raised" THEN idx ELSE idx + 1
          /\ modules_info' = st.modules_info
          /\ previews_by_module' = st.previews_by_module
          /\ stdout' = st.stdout
    /\ UNCHANGED <<fs, listing, output_file>>

\* after the loop: sort, render, write, report
Finish ==
    /\ pc = "loop"
    /\ idx > Len(listing)
    /\ modules_info' = SortModules(modules_info)
    /\ output_file' = Markdown(modules_info', previews_by_module)
    /\ stdout' = Append(stdout, DoneLine)
    /\ pc' = "done"
    /\ UNCHANGED <<fs, listing, idx, previews_by_module>>

RECURSIVE RunLoop(_, _, _)
\* the whole for loop over the listing lst of the tree tree, from state st
RunLoop(tree, lst, st) ==
    IF lst = <<>> \/ st.pc = "raised" THEN st
    ELSE RunLoop(tree, Tail(lst), BodyResult(tree[Head(lst)], Head(lst), st))

\* main() over the tree `tree` listed in the order lst: how it ends, and
\* what it has collected, printed and written by then
RunMain(tree, lst) ==
    LET st == RunLoop(tree, lst, MainState("loop", <<>>, EmptyDict, <<>>))
        sorted == SortModules(st.modules_info)
    IN IF st.pc = "raised"
       THEN [pc |-> "raised", modules_info |-> st.modules_info,
             previews_by_module |-> st.previews_by_module,
             stdout |-> st.stdout, output_file |-> <<>>]
       ELSE [pc |-> "done", modules_info |-> sorted,
             previews_by_module |-> st.previews_by_module,
             stdout |-> Append(st.stdout, DoneLine),
             output_file |-> Markdown(sorted, st.previews_by_module)]

Next == LoopBody \/ Finish

InitRun ==
    /\ pc = "loop"
    /\ idx = 1
    /\ modules_info = <<>>
    /\ previews_by_module = EmptyDict
    /\ stdout = <<>>
    /\ output_file = <<>>

\* main over any listing of up to MaxModules entries of Repo
Init ==
    /\ fs = Repo
    /\ listing \in ArrangementsUpTo(DOMAIN Repo, MaxModules)
    /\ InitRun

Spec == Init /\ [][Next]_vars

SampleImages ==
    ImagesDir({<<"b", ".", "p", "n", "g">>, <<"a", ".", "j", "p", "g">>})

\* main over one module directory whose __init__.py is any of Sources
InitSource ==
    /\ \E src \in Sources :
          fs = [sample |-> ModuleDir(src, SampleImages)]
    /\ listing = <<"sample">>
    /\ InitRun

SpecSource == InitSource /\ [][Next]_vars

\* main over one entry of Repo whose images directory is any of ImageDirs
InitImages ==
    /\ \E m \in DOMAIN Repo, d \in ImageDirs :
          /\ fs = [Repo EXCEPT ![m].images = d]
          /\ listing = <<m>>
    /\ InitRun

SpecImages == InitImages /\ [][Next]_vars

----------------------------------------------------------------------------
(* Reading the written file back, and the inputs of a run. *)

FirstIndex(s, atom) ==
    CHOOSE i \in DOMAIN s : s[i] = atom /\ \A j \in 1..(i - 1) : s[j] # atom

RECURSIVE SplitOn(_, _)
\* the pieces of s between the occurrences of the atom sep
SplitOn(s, sep) ==
    IF \A i \in DOMAIN s : s[i] # sep THEN <<s>>
    ELSE LET i == FirstIndex(s, sep)
         IN <<SubSeq(s, 1, i - 1)>> \o SplitOn(SubSeq(s, i + 1, Len(s)), sep)

\* the table, from its header line to the end of the file
TableText ==
    SubSeq(output_file, FirstIndex(output_file, TableHeader[1]),
           Len(output_file))

\* the lines of the table as a reader of the file sees them
PhysicalLines == SplitOn(TableText, "\n")

\* the lines after the header and the separator
RenderedRows == SubSeq(PhysicalLines, 3, Len(PhysicalLines))

\* the cells of a line "| c1 | c2 | ... | c8 |"
Cells(line) == SplitOn(SubSeq(line, 2, Len(line) - 1), " | ")

\* the module a line links to: the label of [module](...)
RowModule(line) == Cells(line)[7][2]

RowOrder == [i \in DOMAIN RenderedRows |-> RowModule(RenderedRows[i])]

\* the count shown in the summary line
TotalShown == output_file[FirstIndex(output_file, "**total: ") + 1]

\* the record collected for module m
InfoOf(m) ==
    LET i == CHOOSE k \in DOMAIN modules_info : modules_info[k][1] = m
    IN modules_info[i][2]

RecordModules == {modules_info[i][1] : i \in DOMAIN modules_info}

Position(m) == CHOOSE i \in DOMAIN listing : listing[i] = m

HasDeclaration(e) == e.isdir /\ e.has_init

\* the declaration file holds a call whose invoked name is add_meme
HasRegistration(src) ==
    \E k \in DOMAIN src.walk :
        src.walk[k].type = "Call" /\ src.walk[k].id = "add_meme"

\* the first such call in the walk
FirstRegistration(src) ==
    LET k == CHOOSE i \in DOMAIN src.walk :
                 /\ src.walk[i].type = "Call" /\ src.walk[i].id = "add_meme"
                 /\ \A j \in 1..(i - 1) :
                        ~(src.walk[j].type = "Call"
                          /\ src.walk[j].id = "add_meme")
    IN src.walk[k]

RecognizedNames ==
    {"keywords", "min_images", "min_texts", "default_texts", "date_created"}

ListingOrders(lst) ==
    {p \in [DOMAIN lst -> Range(lst)] : Range(p) = Range(lst)}

----------------------------------------------------------------------------
(* C1 *)

\* C1: when main completes, a module is a row of the rendered table if and
\* only if its __init__.py exists, parses and holds a call of add_meme; and
\* a registration with no recognized keyword argument gives a record with
\* every field at its default, which is a row too.
C1_RowIffRegistration ==
    pc = "done" =>
        /\ Range(RowOrder) =
             {m \in Range(listing) :
                /\ HasDeclaration(fs[m]) /\ fs[m].source.parses
                /\ HasRegistration(fs[m].source)}
        /\ Len(RowOrder) = Cardinality(Range(RowOrder))
        /\ \A m \in Range(RowOrder) :
             (\A i \in DOMAIN FirstRegistration(fs[m].source).keywords :
                 FirstRegistration(fs[m].source).keywords[i].arg
                     \notin RecognizedNames)
             => /\ InfoOf(m).keywords = <<>>
                /\ InfoOf(m).min_images = PyNone
                /\ InfoOf(m).min_texts = PyNone
                /\ InfoOf(m).default_texts = <<>>
                /\ InfoOf(m).date_created = NoneDate

\* a completed run over a module registered with no keyword argument, one
\* with no registration and one that does not parse
C1_Witness ==
    /\ pc = "done"
    /\ Range(listing) = {"plain", "helper", "broken"}
    /\ RowOrder = <<"plain">>

----------------------------------------------------------------------------
(* C2 *)

FailsToParse(m) == HasDeclaration(fs[m]) /\ ~fs[m].source.parses

IsParseFailedLine(line) == line # <<>> /\ line[1] = "parse failed "

\* C2: a module whose __init__.py has invalid syntax yields no record and
\* exactly one diagnostic, and the run ends as, and collects and writes what,
\* the run over the same listing without the failing modules does.
C2_SyntaxErrorIsIsolated ==
    LET processed == SubSeq(listing, 1, idx - 1)
        failing == SelectSeq(processed, FailsToParse)
        ref == RunMain(fs, SelectSeq(listing, LAMBDA m : ~FailsToParse(m)))
    IN /\ SelectSeq(stdout, IsParseFailedLine)
            = [i \in DOMAIN failing |-> ParseFailedLine(failing[i])]
       /\ \A m \in RecordModules : ~FailsToParse(m)
       /\ pc \in {"done", "raised"} =>
            /\ pc = ref.pc
            /\ modules_info = ref.modules_info
            /\ previews_by_module = ref.previews_by_module
            /\ output_file = ref.output_file

\* a completed run with the failing module between two modules that have
\* records
C2_Witness ==
    /\ pc = "done"
    /\ Len(listing) = 3
    /\ listing[2] = "broken"
    /\ Len(modules_info) = 2
    /\ Len(SelectSeq(stdout, IsParseFailedLine)) = 1

----------------------------------------------------------------------------
(* C3 *)

\* C3: extraction is total: for a file that parses and holds a registration,
\* whatever the shape or value of its keyword arguments, no exception leaves
\* extract_meme_info and a record is produced.
C3_ExtractionIsTotal ==
    \A m \in Range(listing) :
        (/\ HasDeclaration(fs[m]) /\ fs[m].source.parses
         /\ HasRegistration(fs[m].source))
        => /\ pc # "raised"
           /\ idx > Position(m) => m \in RecordModules

----------------------------------------------------------------------------
(* C4 *)

NumericLiterals(args) ==
    SelectSeq(args, LAMBDA a : a.type = "Constant" /\ a.val.kind = "int")

IsCalendarDate(y, m, d) ==
    /\ y >= 1 /\ y <= 9999 /\ m >= 1 /\ m <= 12
    /\ d >= 1 /\ d <= DaysInMonth(y, m)

\* C4: for date_created=datetime(...) with at least three numeric literal
\* arguments Y, M, D naming a calendar date, extraction succeeds and the
\* date is Y-M-D (at midnight), whatever other arguments the call has.
C4_DateIsFirstThree ==
    \A m \in Range(listing) :
        (/\ HasDeclaration(fs[m]) /\ fs[m].source.parses
         /\ HasRegistration(fs[m].source))
        => LET kws == FirstRegistration(fs[m].source).keywords
               dates == SelectSeq(kws, LAMBDA kw : kw.arg = "date_created")
               nums == NumericLiterals(dates[1].value.args)
           IN (/\ Len(dates) = 1
               /\ dates[1].value.type = "Call"
               /\ dates[1].value.id = "datetime"
               /\ Len(nums) >= 3
               /\ IsCalendarDate(nums[1].val.n, nums[2].val.n, nums[3].val.n))
              => /\ pc # "raised"
                 /\ idx > Position(m) =>
                      /\ m \in RecordModules
                      /\ InfoOf(m).date_created =
                           <<nums[1].val.n, nums[2].val.n, nums[3].val.n,
                             0, 0, 0, 0>>

----------------------------------------------------------------------------
(* C5 *)

RECURSIVE StringLiterals(_)
\* the values of the string literals among elts, in order
StringLiterals(elts) ==
    IF elts = <<>> THEN <<>>
    ELSE IF Head(elts).type = "Constant" /\ Head(elts).val.kind = "str"
    THEN <<Head(elts).val.s>> \o StringLiterals(Tail(elts))
    ELSE StringLiterals(Tail(elts))

ListField(info, name) ==
    IF name = "keywords" THEN info.keywords ELSE info.default_texts

\* C5: the keywords and default_texts of a record are the string literals of
\* the list literal given for that name, in order and with repeats; the field
\* is empty when no list literal is given for it.  (Should the call name the
\* argument more than once, the last list literal given for it counts.)
C5_StringSubsequence ==
    \A m \in RecordModules :
        \A name \in {"keywords", "default_texts"} :
            LET kws == FirstRegistration(fs[m].source).keywords
                lists == SelectSeq(kws, LAMBDA kw :
                             kw.arg = name /\ kw.value.type = "List")
            IN ListField(InfoOf(m), name) =
                 IF lists = <<>> THEN <<>>
                 ELSE StringLiterals(lists[Len(lists)].value.elts)

\* a record taken from keywords=[<str>, <non-str>]: one keyword extracted
\* from a list literal of two elements
C5_Witness ==
    /\ pc = "done"
    /\ Len(modules_info) = 1
    /\ LET kws == FirstRegistration(fs[listing[1]].source).keywords
       IN /\ Len(kws) = 1
          /\ kws[1].arg = "keywords"
          /\ kws[1].value.type = "List"
          /\ Len(kws[1].value.elts) = 2
          /\ kws[1].value.elts[2].type # "Constant"
          /\ modules_info[1][2].keywords = << <<"a">> >>

----------------------------------------------------------------------------
(* C6 *)

\* the date cell of a line holds the placeholder
RowUndated(line) == Cells(line)[8] = Nbsp

\* the statement of C6 as first made: in the rendered table no undated row
\* precedes a dated row, whatever the dates are.
C6_UndatedAfterEveryDated ==
    pc = "done" =>
        \A i, j \in DOMAIN RenderedRows :
            i < j => ~(RowUndated(RenderedRows[i])
                       /\ ~RowUndated(RenderedRows[j]))

\* C6: the rows are in descending order of date_created, an undated record
\* counting as dated datetime.min; so an undated row precedes a dated row
\* only if that row is dated datetime.min itself.
C6_DescendingUndatedAsMin ==
    pc = "done" =>
        \A i, j \in DOMAIN RenderedRows :
            i < j =>
              LET a == InfoOf(RowOrder[i]).date_created
                  b == InfoOf(RowOrder[j]).date_created
              IN /\ RowUndated(RenderedRows[i]) <=> a = NoneDate
                 /\ ~TupleLess(IF a = NoneDate THEN DatetimeMin ELSE a,
                               IF b = NoneDate THEN DatetimeMin ELSE b)
                 /\ (a = NoneDate /\ b # NoneDate) => b = DatetimeMin

\* records dated 2024-01-01 and 2023-06-15 and an undated one, listed in
\* the opposite order, rendered newest first and undated last
C6_Witness ==
    /\ pc = "done"
    /\ listing = <<"nodate", "older", "newer">>
    /\ RowOrder = <<"newer", "older", "nodate">>
    /\ RowUndated(RenderedRows[3])
    /\ ~RowUndated(RenderedRows[1])

----------------------------------------------------------------------------
(* C7 *)

\* the statement of C7 as first made: every order of the same listing gives
\* the same file.
C7_AnyOrderSameRows ==
    pc = "done" =>
        \A p \in ListingOrders(listing) :
            RunMain(fs, p).output_file = output_file

\* C7: every order of the same listing gives the same file provided no two
\* records have the same sort key; records with the same sort key (the same
\* date_created, or undated ones) are rendered in the order of the listing.
C7_OrderFixedUpToTies ==
    pc = "done" =>
        /\ (\A i, j \in DOMAIN modules_info :
               i # j => SortKey(modules_info[i]) # SortKey(modules_info[j]))
           => \A p \in ListingOrders(listing) :
                  RunMain(fs, p).output_file = output_file
        /\ \A i, j \in DOMAIN RowOrder :
               (/\ i < j
                /\ SortKey(<<RowOrder[i], InfoOf(RowOrder[i])>>)
                     = SortKey(<<RowOrder[j], InfoOf(RowOrder[j])>>))
               => Position(RowOrder[i]) < Position(RowOrder[j])

\* three records with three different keys, listed oldest first
C7_Witness ==
    /\ pc = "done"
    /\ listing = <<"first", "older", "newer">>
    /\ RowOrder = <<"newer", "older", "first">>

----------------------------------------------------------------------------
(* C8 *)

\* C8: the written table has the header line, the separator line and one
\* line per record, the k-th of them numbered k and naming the k-th record,
\* and the summary line shows the number of records.
C8_OneLinePerRecord ==
    pc = "done" =>
        /\ TotalShown = ToString(Len(modules_info))
        /\ Len(PhysicalLines) = Len(modules_info) + 2
        /\ PhysicalLines[1] = TableHeader
        /\ PhysicalLines[2] = TableSeparator
        /\ \A k \in DOMAIN modules_info :
             /\ SubSeq(RenderedRows[k], 1, 3) = <<"| ", ToString(k), " | ">>
             /\ RowModule(RenderedRows[k]) = modules_info[k][1]

----------------------------------------------------------------------------
(* C9 *)

CellDelimiters == {"| ", " | ", " |"}

\* the text of the data rows: what follows the separator line
DataText ==
    LET t == TableText
    IN SubSeq(t, FirstIndex(t, TableSeparator[1]) + 1, Len(t))

\* C9: no cell of a data row is empty (no two cell delimiters are adjacent),
\* and a count of 0 shows as "0".
C9_NoEmptyCell ==
    pc = "done" =>
        /\ \A i \in 1..(Len(DataText) - 1) :
             ~(DataText[i] \in CellDelimiters
               /\ DataText[i + 1] \in CellDelimiters)
        /\ \A k \in DOMAIN modules_info :
             modules_info[k][2].min_images = PyInt(0)
             => \E i \in 1..(Len(DataText) - 2) :
                    /\ DataText[i] = " | " /\ DataText[i + 1] = "0"
                    /\ DataText[i + 2] = " | "

----------------------------------------------------------------------------
(* C10 *)

\* the names of a directory's entries that end, lowercased, with an image
\* extension
ImageEntries(images) ==
    {f \in images.entries :
        \E ext \in ImageExtensions : EndsWith(Lower(f), ext)}

\* C10: the preview of a processed module is the link to the entry of its
\* images directory that is first, in code point order of the names, among
\* those with an image extension; there is none when images is no directory
\* or holds no such entry; and only a module with a record has a preview.
C10_FirstImageIsPreview ==
    /\ DOMAIN previews_by_module \subseteq RecordModules
    /\ \A m \in RecordModules :
         LET images == fs[m].images
             found == ImageEntries(images)
         IN /\ HasKey(previews_by_module, m) <=> (images.isdir /\ found # {})
            /\ HasKey(previews_by_module, m) =>
                 \E f \in found :
                    /\ \A g \in found : g # f => StrLess(f, g)
                    /\ previews_by_module[m] =
                         <<"https://raw.githubusercontent.com/", GITHUB_REPO,
                           "/master/", "memes", "/", m, "/", "images", "/">>
                         \o f

\* images holds b.png, a.jpg and note.txt: the preview is a.jpg
C10_Witness ==
    /\ idx = 2
    /\ listing = <<"newer">>
    /\ fs["newer"].images.entries =
         { <<"b", ".", "p", "n", "g">>, <<"a", ".", "j", "p", "g">>,
           <<"n", "o", "t", "e", ".", "t", "x", "t">> }
    /\ HasKey(previews_by_module, "newer")
    /\ EndsWith(previews_by_module["newer"], <<"a", ".", "j", "p", "g">>)

====
